---- MODULE Spec2Model ----
(***************************************************************************)
(* State-machine model of the chat relay in src/main.go.                   *)
(*                                                                         *)
(* Strings are modelled as sequences of chunks: a chunk is either a piece  *)
(* of text without a line break or one of the one-character chunks "\n",   *)
(* "\r", " ".  The empty string is << >>.  This keeps the formatting of a  *)
(* history line (saveMessageToFile) and the line splitting of the replay   *)
(* (sendChatHistory, bufio.ScanLines) as separate computations.  A         *)
(* character outside ASCII, and a control character TLA+ has no escape     *)
(* for, is a chunk of its own spelled by the name of its code point,       *)
(* "U+3000"; no text is spelled that way.  Strings are valid UTF-8.        *)
(*                                                                         *)
(* A *User is a pointer.  The only place a User is allocated is            *)
(* handleSignup, which stores it under users[msg.Sender] and never         *)
(* replaces it, so the username identifies the object: clients and rooms   *)
(* hold usernames and the record is read through users[...].               *)
(*                                                                         *)
(* In Spec, SpecAuth and SpecRooms, which differ in their input           *)
(* alphabets, a handler runs as one step, except where it runs with no     *)
(* mutex held and other handlers may run in between: handleChat between    *)
(* its two reads of user.Room and before roomLock.Lock(), and              *)
(* handleMessages after roomLock.Unlock().  A run-time panic inside a      *)
(* handler (a nil *User or a nil *websocket.Conn being dereferenced)       *)
(* unwinds the goroutine: the deferred unlocks and the deferred ws.Close() *)
(* of handleConnections run, net/http recovers the panic of a request      *)
(* goroutine, and the process goes on.  A panic in the goroutine of        *)
(* handleMessages, and log.Fatal, end the process.                         *)
(*                                                                         *)
(* SpecTasks runs the                                                      *)
(* same handlers as goroutines, one per connection and the one of          *)
(* handleMessages, a step being a Lock call, an access to a map or to      *)
(* User.Room, or a write on a connection; task and held are the            *)
(* goroutines' positions and locals and the holders of the three mutexes.  *)
(***************************************************************************)
EXTENDS Integers, Sequences, FiniteSets, TLC

\* Bounds of the model: the entries all member lists hold together, and the
\* lines all history files hold together.
MaxMembers == 2
MaxLog == 1

\* The bound on the entries of the member lists in SpecRooms, where one list
\* holds an identity twice with another between while a second list holds an
\* entry too.
MaxListed == 4

\* The nil *websocket.Conn (User.Conn is left at its zero value).
NilConn == 0

\* The connections clients open: two handles, so that two sessions can be
\* live at once, for one identity or for two.
Conns == {1, 2}

\* The goroutines: the one of handleConnections for each connection (named by
\* its connection) and the one main starts for handleMessages.
Broadcaster == 3
Tasks == Conns \cup {Broadcaster}

\* The holder of an unlocked sync.Mutex.
NoTask == 0

\* Strings the inputs are built from.
E == << >>
alice == <<"alice">>
bob == <<"bob">>
lobby == <<"lobby">>
pw1 == <<"pw1">>
pw2 == <<"pw2">>
hi == <<"hi">>
twoLines == <<"x", "\n", "y">>

\* Input alphabets of Spec: two identities, a room named "" and a room named
\* "lobby", a chat text of one line and one with a line break inside, a
\* console line of white space only and one with text.
Names == {alice, bob}
Passwords == {pw1}
RoomNames == {E, lobby}
ChatContents == {hi, twoLines}
ConsoleLines == {<<"\f", "U+3000", "\n">>, <<"U+2003", "hey", "\r", "\n">>}

\* Input alphabets of SpecAuth: the two identities, two passwords alice may
\* sign up or sign in with and one for bob, one room, one chat text, one
\* Sender a client writes in its chat messages.
AuthPasswords == {pw1, pw2}
AuthRoomNames == {lobby}
AuthContents == {hi}
AuthSenders == {alice}

\* Input alphabets of SpecRooms: one connection, which signs in as one
\* identity and then as the other (handleSignin rebinds clients[ws], and the
\* handlers of rooms read nothing of a connection but clients[ws]), the two
\* identities with one password each, two rooms, the chat messages of
\* SpecAuth.
ListedConns == {1}
den == <<"den">>
ListedRoomNames == {lobby, den}

VARIABLES server, conn, users, clients, rooms, files, last, sent, pushed,
          task, held

vars == <<server, conn, users, clients, rooms, files, last, sent, pushed, task, held>>

\* type Message
Msg(type, sender, target, content, room) ==
    [Type |-> type, Sender |-> sender, Target |-> target, Content |-> content, Room |-> room]

\* Message{Type: t, Content: text}
Reply(type, text) == Msg(type, E, E, <<text>>, E)

NoMsg == Msg("", E, E, E, E)

\* type User, as allocated by handleSignup: Conn and Room keep their zero values.
NewUser(name, password) ==
    [Username |-> name, Password |-> password, Conn |-> NilConn, Room |-> E]

\* One write on a connection: ws.WriteJSON(m).
Write(ws, m) == [to |-> ws, msg |-> m]

\* delete(m, k) on a Go map.
MapDelete(m, k) == [x \in DOMAIN m \ {k} |-> m[x]]

\* m[k] = v on a Go map.
MapPut(m, k, v) == [x \in DOMAIN m \cup {k} |-> IF x = k THEN v ELSE m[x]]

\* rooms[name]: a missing key reads as the nil slice.
RoomMembers(name) == IF name \in DOMAIN rooms THEN rooms[name] ELSE << >>

RECURSIVE CountMembers(_)
\* Entries held by the member lists of the given rooms, all together.
CountMembers(roomSet) ==
    IF roomSet = {} THEN 0
    ELSE LET r == CHOOSE x \in roomSet : TRUE
         IN Len(rooms[r]) + CountMembers(roomSet \ {r})

Memberships == CountMembers(DOMAIN rooms)

\* The record of the event a step handled.
Event(kind, ws, msg, outcome) ==
    [kind |-> kind, conn |-> ws, msg |-> msg, outcome |-> outcome]

\* No event is being handled: every goroutine waits for its next input.
Idle == Event("idle", NilConn, NoMsg, "ok")

\* The server is up and waits for input.
Ready == server = "running" /\ last = Idle

---------------------------------------------------------------------------
\* The history file of a room.

\* fmt.Sprintf("[%s] %s: %s\n", msg.Room, msg.Sender, msg.Content)
FormatLine(msg) ==
    <<"[">> \o msg.Room \o <<"] ">> \o msg.Sender \o <<": ">> \o msg.Content \o <<"\n">>

\* The bytes of chat_history_<room>.txt; a missing file has none.
FileBytes(room) == IF room \in DOMAIN files THEN files[room] ELSE << >>

\* The characters spelled by name: NUL, the vertical tab, the next-line
\* character, the no-break space, the other white-space characters of
\* Unicode, and e with an acute accent, a letter, for one that is none.
NUL == "U+0000"
VT == "U+000B"
NEL == "U+0085"
NBSP == "U+00A0"
EAcute == "U+00E9"
WideSpaces ==
    {"U+1680", "U+2000", "U+2001", "U+2002", "U+2003", "U+2004", "U+2005",
     "U+2006", "U+2007", "U+2008", "U+2009", "U+200A", "U+2028", "U+2029",
     "U+202F", "U+205F", "U+3000"}

\* The bytes of a chunk in UTF-8: one for a code point below U+0080, two
\* below U+0800, three for the others named here.
UTF8Len(ch) ==
    IF ch \in {NUL, VT} THEN 1
    ELSE IF ch \in {NEL, NBSP, EAcute} THEN 2
    ELSE IF ch \in WideSpaces THEN 3
    ELSE Len(ch)

RECURSIVE ByteLen(_)
\* The length in bytes of the string a chunk sequence spells.
ByteLen(chunks) ==
    IF chunks = << >> THEN 0 ELSE UTF8Len(Head(chunks)) + ByteLen(Tail(chunks))

\* The longest file name the file system takes.
NameMax == 255

\* os.OpenFile of "chat_history_" + room + ".txt" in the working directory
\* succeeds: the name holds no "/" (a chunk of its own; the program creates no
\* directory, so the directory such a path names is missing), no NUL, and is
\* not too long.  The working directory itself is taken to be writable.
CanOpen(room) ==
    /\ \A i \in 1..Len(room) : room[i] \notin {"/", NUL}
    /\ Len("chat_history_") + ByteLen(room) + Len(".txt") <= NameMax

\* saveMessageToFile: open for append (creating the file), write one formatted
\* line; when the open fails the error is logged and nothing is written.
SaveMessageToFile(msg) ==
    IF CanOpen(msg.Room)
    THEN MapPut(files, msg.Room, FileBytes(msg.Room) \o FormatLine(msg))
    ELSE files

RECURSIVE Flatten(_)
\* The string a chunk sequence spells.
Flatten(chunks) ==
    IF chunks = << >> THEN "" ELSE Head(chunks) \o Flatten(Tail(chunks))

\* bufio.dropCR: one trailing carriage return is dropped from a line.
DropCR(chunks) ==
    IF chunks # << >> /\ chunks[Len(chunks)] = "\r"
    THEN SubSeq(chunks, 1, Len(chunks) - 1)
    ELSE chunks

\* scanner.Text() of one line, as a string value.
LineText(chunks) ==
    LET s == Flatten(DropCR(chunks)) IN IF s = "" THEN << >> ELSE <<s>>

\* bufio.MaxScanTokenSize, the buffer limit of a Scanner that is given no
\* other.
MaxScanTokenSize == 65536

RECURSIVE ScanFrom(_, _)
\* bufio.ScanLines over the bytes: every "\n" ends a line; a non-empty rest
\* without a final "\n" is a last line.  When the buffer has filled up with
\* no "\n" in it, Scan fails with ErrTooLong and the loop ends with the lines
\* it has had so far.
ScanFrom(bytes, cur) ==
    IF ByteLen(cur) >= MaxScanTokenSize
    THEN << >>
    ELSE IF bytes = << >>
    THEN IF cur = << >> THEN << >> ELSE <<LineText(cur)>>
    ELSE IF Head(bytes) = "\n"
         THEN <<LineText(cur)>> \o ScanFrom(Tail(bytes), << >>)
         ELSE ScanFrom(Tail(bytes), Append(cur, Head(bytes)))

ScanLines(bytes) == ScanFrom(bytes, << >>)

\* sendChatHistory: one history message per line of the room's file, in file order.
SendChatHistory(ws, room) ==
    LET lines == ScanLines(FileBytes(room))
    IN [i \in 1..Len(lines) |-> Write(ws, Msg("history", E, E, lines[i], E))]

RECURSIVE CountLines(_)
\* Lines held by the files of the given rooms, all together.
CountLines(roomSet) ==
    IF roomSet = {} THEN 0
    ELSE LET r == CHOOSE x \in roomSet : TRUE
         IN Len(ScanLines(files[r])) + CountLines(roomSet \ {r})

LogSize == CountLines(DOMAIN files)

---------------------------------------------------------------------------
\* The fanout loops of handleChat and handleMessages.

\* u.Conn.WriteJSON(msg) inside a fanout.  st carries what the loop has done so
\* far; pushed lists the members whose push was started.  A nil Conn panics; a
\* write on a closed connection returns an error, and the loop closes the
\* connection and deletes it from clients.
Push(u, msg, st) ==
    IF u.Conn = NilConn
    THEN [st EXCEPT !.panic = TRUE, !.pushed = Append(@, u.Username)]
    ELSE IF st.conn[u.Conn] = "open"
         THEN [st EXCEPT !.sent = Append(@, Write(u.Conn, msg)),
                         !.pushed = Append(@, u.Username)]
         ELSE [st EXCEPT !.conn = [@ EXCEPT ![u.Conn] = "closed"],
                         !.clients = MapDelete(@, u.Conn),
                         !.pushed = Append(@, u.Username)]

RECURSIVE Deliver(_, _, _, _)
\* for _, u := range members { ... }; filtered is TRUE in handleChat, whose loop
\* skips the members a dm is not for.
Deliver(members, msg, filtered, st) ==
    IF members = << >> \/ st.panic THEN st
    ELSE LET u == users[Head(members)]
         IN IF filtered /\ msg.Type = "dm" /\ u.Username # msg.Target
                        /\ u.Username # msg.Sender
            THEN Deliver(Tail(members), msg, filtered, st)
            ELSE Deliver(Tail(members), msg, filtered, Push(u, msg, st))

\* What a fanout loop starts from: nothing written, and the registries as they are.
FanoutStart ==
    [sent |-> << >>, pushed |-> << >>, conn |-> conn, clients |-> clients, panic |-> FALSE]

---------------------------------------------------------------------------
\* The state after main has started the listener and its two goroutines.

\* A goroutine's position, its msg, its user (<< >> for nil, else <<name>>) and
\* what is left of the slice its range loop is over.
Frame(pc, msg, user, range) == [pc |-> pc, msg |-> msg, user |-> user, range |-> range]

\* The frame of a goroutine that is in none of its handlers.
Resting(t) == Frame(IF t = Broadcaster THEN "receive" ELSE "accept", NoMsg, << >>, << >>)

\* Goroutines that have taken a chat message, or a line of the operator, and
\* not yet saved it.
Saving ==
    {t \in Tasks : task[t].pc \in {"chat_clients", "chat_check", "chat_tag", "chat_lock",
                                   "chat_range", "chat_loop", "chat_unbind",
                                   "chat_clients_delete", "chat_save", "fanout",
                                   "fanout_range", "fanout_loop", "fanout_unbind",
                                   "fanout_clients_delete", "fanout_unlock", "fanout_save"}}

Init ==
    /\ task = [t \in Tasks |-> Resting(t)]
    /\ held = [userLock |-> NoTask, clientLock |-> NoTask, roomLock |-> NoTask]
    /\ server = "running"
    /\ conn = [c \in Conns |-> "new"]
    /\ users = << >>
    /\ clients = << >>
    /\ rooms = << >>
    /\ files = << >>
    /\ last = Idle
    /\ sent = << >>
    /\ pushed = << >>

\* A handler that returned after writing `out` on connections.
Returned(kind, ws, msg, out) ==
    /\ last' = Event(kind, ws, msg, "ok")
    /\ sent' = out
    /\ pushed' = << >>

\* A handler of connection ws that panicked: handleConnections unwinds, its
\* deferred ws.Close() runs, and the entry of ws in clients stays as it was.
Panicked(kind, ws, msg, out) ==
    /\ last' = Event(kind, ws, msg, "panic")
    /\ sent' = out

\* handleConnections: upgrader.Upgrade succeeded for a new connection.  The
\* handles are given out in order: 2 is the connection opened second.
Upgrade(ws) ==
    /\ Ready
    /\ conn[ws] = "new"
    /\ \A c \in Conns : c < ws => conn[c] # "new"
    /\ conn' = [conn EXCEPT ![ws] = "open"]
    /\ Returned("upgrade", ws, NoMsg, << >>)
    /\ UNCHANGED <<server, users, clients, rooms, files>>

\* handleConnections: upgrader.Upgrade returned an error; log.Fatal ends the process.
UpgradeError ==
    /\ Ready
    /\ server' = "aborted"
    /\ last' = Event("upgrade", NilConn, NoMsg, "fatal")
    /\ sent' = << >>
    /\ pushed' = << >>
    /\ UNCHANGED <<conn, users, clients, rooms, files>>

\* handleConnections: ws.ReadJSON returned an error (the peer closed or broke).
ReadError(ws) ==
    /\ Ready
    /\ conn[ws] = "open"
    /\ task[ws] = Resting(ws)
    /\ clients' = MapDelete(clients, ws)
    /\ conn' = [conn EXCEPT ![ws] = "closed"]
    /\ Returned("read_error", ws, NoMsg, << >>)
    /\ UNCHANGED <<server, users, rooms, files>>

\* The read loop took msg from ws and the switch chose the handler of msg.Type.
Received(ws, msg, type) ==
    /\ Ready
    /\ conn[ws] = "open"
    /\ task[ws] = Resting(ws)
    /\ msg.Type = type

\* handleSignup without the check for an existing username.
handleSignupOverwrites(ws, msg) ==
    /\ Received(ws, msg, "signup")
    /\ users' = MapPut(users, msg.Sender, NewUser(msg.Sender, msg.Content))
    /\ Returned("signup", ws, msg, <<Write(ws, Reply("info", "Signup successful"))>>)
    /\ UNCHANGED <<server, conn, clients, rooms, files>>

\* msg.Sender is the username and msg.Content the password.
handleSignup(ws, msg) ==
    /\ Received(ws, msg, "signup")
    /\ IF msg.Sender \in DOMAIN users
       THEN /\ users' = users
            /\ Returned("signup", ws, msg, <<Write(ws, Reply("error", "Username already exists"))>>)
       ELSE /\ users' = MapPut(users, msg.Sender, NewUser(msg.Sender, msg.Content))
            /\ Returned("signup", ws, msg, <<Write(ws, Reply("info", "Signup successful"))>>)
    /\ UNCHANGED <<server, conn, clients, rooms, files>>

\* clients[ws] = user: the connection is bound to the identity's one User record.
handleSignin(ws, msg) ==
    /\ Received(ws, msg, "signin")
    /\ IF msg.Sender \notin DOMAIN users \/ users[msg.Sender].Password # msg.Content
       THEN /\ clients' = clients
            /\ Returned("signin", ws, msg,
                        <<Write(ws, Reply("error", "Invalid username or password"))>>)
       ELSE /\ clients' = MapPut(clients, ws, msg.Sender)
            /\ Returned("signin", ws, msg, <<Write(ws, Reply("info", "Signin successful"))>>)
    /\ UNCHANGED <<server, conn, users, rooms, files>>

\* delete(clients, ws), whether or not ws has an entry.
handleSignout(ws, msg) ==
    /\ Received(ws, msg, "signout")
    /\ clients' = MapDelete(clients, ws)
    /\ Returned("signout", ws, msg, <<Write(ws, Reply("info", "Signout successful"))>>)
    /\ UNCHANGED <<server, conn, users, rooms, files>>

\* msg.Content is the room name; clients is not consulted.
handleCreateRoom(ws, msg) ==
    /\ Received(ws, msg, "create_room")
    /\ IF msg.Content \in DOMAIN rooms
       THEN /\ rooms' = rooms
            /\ Returned("create_room", ws, msg,
                        <<Write(ws, Reply("error", "Room already exists"))>>)
       ELSE /\ rooms' = MapPut(rooms, msg.Content, << >>)
            /\ Returned("create_room", ws, msg,
                        <<Write(ws, Reply("info", "Room created successfully"))>>)
    /\ UNCHANGED <<server, conn, users, clients, files>>

\* The room is looked up before user is used, so a connection without a session
\* gets the error for a missing room and panics for an existing one.  The
\* entries all member lists hold together stay within the bound.
JoinRoomWithin(bound, ws, msg) ==
    /\ Received(ws, msg, "join_room")
    /\ IF msg.Content \notin DOMAIN rooms
       THEN /\ Returned("join_room", ws, msg,
                        <<Write(ws, Reply("error", "Room does not exist"))>>)
            /\ UNCHANGED <<conn, users, rooms>>
       ELSE IF ws \notin DOMAIN clients
       THEN \* user is nil: user.Room = msg.Content panics
            /\ Panicked("join_room", ws, msg, << >>)
            /\ pushed' = << >>
            /\ conn' = [conn EXCEPT ![ws] = "closed"]
            /\ UNCHANGED <<users, rooms>>
       ELSE /\ Memberships < bound
            /\ users' = [users EXCEPT ![clients[ws]].Room = msg.Content]
            /\ rooms' = [rooms EXCEPT ![msg.Content] = Append(@, clients[ws])]
            /\ Returned("join_room", ws, msg,
                        SendChatHistory(ws, msg.Content)
                          \o <<Write(ws, Reply("info", "Joined room successfully"))>>)
            /\ conn' = conn
    /\ UNCHANGED <<server, clients, files>>

handleJoinRoom(ws, msg) == JoinRoomWithin(MaxMembers, ws, msg)

\* A loop that runs to its end and cuts at the last match: the last entry
\* whose Username is name is removed.
RemoveLast(room, name) ==
    IF \E i \in 1..Len(room) : users[room[i]].Username = name
    THEN LET i == CHOOSE k \in 1..Len(room) :
                     /\ users[room[k]].Username = name
                     /\ \A j \in (k + 1)..Len(room) : users[room[j]].Username # name
         IN SubSeq(room, 1, i - 1) \o SubSeq(room, i + 1, Len(room))
    ELSE room

\* append(room[:i], room[i+1:]...) for the first i whose Username is name.
RemoveFirst(room, name) ==
    IF \E i \in 1..Len(room) : users[room[i]].Username = name
    THEN LET i == CHOOSE k \in 1..Len(room) :
                     /\ users[room[k]].Username = name
                     /\ \A j \in 1..(k - 1) : users[room[j]].Username # name
         IN SubSeq(room, 1, i - 1) \o SubSeq(room, i + 1, Len(room))
    ELSE room

\* "Not in a room" is decided by rooms[user.Room] being absent.
handleLeaveRoom(ws, msg) ==
    /\ Received(ws, msg, "leave_room")
    /\ IF ws \notin DOMAIN clients
       THEN \* user is nil: rooms[user.Room] panics
            /\ Panicked("leave_room", ws, msg, << >>)
            /\ pushed' = << >>
            /\ conn' = [conn EXCEPT ![ws] = "closed"]
            /\ UNCHANGED <<users, rooms>>
       ELSE LET user == users[clients[ws]]
            IN IF user.Room \notin DOMAIN rooms
               THEN /\ Returned("leave_room", ws, msg,
                                <<Write(ws, Reply("error", "You are not in a room"))>>)
                    /\ UNCHANGED <<conn, users, rooms>>
               ELSE /\ rooms' = [rooms EXCEPT ![user.Room] = RemoveFirst(@, user.Username)]
                    /\ users' = [users EXCEPT ![clients[ws]].Room = E]
                    /\ Returned("leave_room", ws, msg,
                                <<Write(ws, Reply("info", "Left room successfully"))>>)
                    /\ conn' = conn
    /\ UNCHANGED <<server, clients, files>>

\* Lines 186-191, with no mutex held: user is clients[ws], and "not in a
\* room" is decided by user.Room == "".
handleChat(ws, msg) ==
    /\ Ready
    /\ conn[ws] = "open"
    /\ task[ws] = Resting(ws)
    /\ msg.Type \in {"broadcast", "dm"}
    /\ IF ws \notin DOMAIN clients
       THEN \* user is nil: user.Room panics
            /\ Panicked(msg.Type, ws, msg, << >>)
            /\ pushed' = << >>
            /\ conn' = [conn EXCEPT ![ws] = "closed"]
            /\ task' = task
       ELSE IF users[clients[ws]].Room = E
       THEN /\ Returned(msg.Type, ws, msg,
                        <<Write(ws, Reply("error", "You are not in a room"))>>)
            /\ UNCHANGED <<conn, task>>
       ELSE /\ LogSize + Cardinality(Saving) < MaxLog
            /\ Returned("checked", ws, msg, << >>)
            /\ task' = [task EXCEPT ![ws] = Frame("chat_tag", msg, <<clients[ws]>>, << >>)]
            /\ conn' = conn
    /\ UNCHANGED <<server, users, clients, rooms, files, held>>

\* Lines 193-195, with no mutex held: the message is tagged with user.Room,
\* read a second time, and the goroutine calls roomLock.Lock(), where it may
\* wait while other handlers run.
handleChatTag(ws) ==
    /\ Ready
    /\ task[ws].pc = "chat_tag"
    /\ LET out == [task[ws].msg EXCEPT !.Room = users[task[ws].user[1]].Room]
       IN /\ Returned("tagged", ws, out, << >>)
          /\ task' = [task EXCEPT ![ws].msg = out, ![ws].pc = "chat_lock"]
    /\ UNCHANGED <<server, conn, users, clients, rooms, files, held>>

\* Lines 195-213, with roomLock held: the message is fanned out over
\* rooms[user.Room], user.Room being read again, and, if the loop ends,
\* appended to the file of the room it was tagged with.
handleChatLocked(ws) ==
    /\ Ready
    /\ task[ws].pc = "chat_lock"
    /\ LET user == users[task[ws].user[1]]
           out == task[ws].msg
           st == Deliver(RoomMembers(user.Room), out, TRUE, FanoutStart)
       IN IF st.panic
          THEN /\ Panicked(out.Type, ws, out, st.sent)
               /\ pushed' = st.pushed
               /\ conn' = [st.conn EXCEPT ![ws] = "closed"]
               /\ clients' = st.clients
               /\ files' = files
          ELSE /\ last' = Event(out.Type, ws, out, "ok")
               /\ sent' = st.sent
               /\ pushed' = st.pushed
               /\ conn' = st.conn
               /\ clients' = st.clients
               /\ files' = SaveMessageToFile(out)
    /\ task' = [task EXCEPT ![ws] = Resting(ws)]
    /\ UNCHANGED <<server, users, rooms, held>>

\* clients[ws] is read with clientLock not held (lines 155, 168, 187) while
\* the handler of another connection writes the map: the store of a signin
\* that matches a record of users (118), or the delete of a signout or of a
\* failed read (70, 128), which returns at once when the map is empty.  The
\* read then either has the value from before or after the write, as the
\* handlers run one after the other have it, or the runtime ends the process
\* with "concurrent map read and map write".
ConcurrentMapReadWrite(reader, writer) ==
    /\ Ready
    /\ reader # writer
    /\ conn[reader] = "open"
    /\ task[reader] = Resting(reader)
    /\ conn[writer] = "open"
    /\ task[writer] = Resting(writer)
    /\ DOMAIN users # {}
    /\ server' = "aborted"
    /\ last' = Event("lookup", NilConn, NoMsg, "fatal")
    /\ sent' = << >>
    /\ pushed' = << >>
    /\ UNCHANGED <<conn, users, clients, rooms, files>>

\* A message type the switch of handleConnections has no case for.
Ignored(ws, msg) ==
    /\ Ready
    /\ conn[ws] = "open"
    /\ task[ws] = Resting(ws)
    /\ msg.Type \notin {"signup", "signin", "signout", "create_room", "join_room",
                        "leave_room", "broadcast", "dm"}
    /\ Returned("ignored", ws, msg, << >>)
    /\ UNCHANGED <<server, conn, users, clients, rooms, files>>

---------------------------------------------------------------------------
\* The operator console.

\* unicode.IsSpace, which strings.TrimSpace trims by: the white-space
\* characters of ASCII and of Latin-1, and those of the White_Space property
\* above them.  A white-space character is a chunk of its own.
IsSpace(ch) ==
    ch \in {" ", "\t", "\n", VT, "\f", "\r", NEL, NBSP} \cup WideSpaces

RECURSIVE TrimLeft(_)
TrimLeft(s) == IF s # << >> /\ IsSpace(Head(s)) THEN TrimLeft(Tail(s)) ELSE s

RECURSIVE TrimRight(_)
TrimRight(s) ==
    IF s # << >> /\ IsSpace(s[Len(s)]) THEN TrimRight(SubSeq(s, 1, Len(s) - 1)) ELSE s

\* strings.TrimSpace
TrimSpace(s) == TrimRight(TrimLeft(s))

\* startCLI and lines 237-249 of handleMessages: one line read from the
\* console; an empty line is skipped, any other is sent on the unbuffered
\* channel, where handleMessages takes it (the send returns when the receive
\* happens) and fans it out to rooms[msg.Room] with roomLock held.  A panic
\* here is in a goroutine nothing recovers.
handleMessages(line) ==
    /\ Ready
    /\ task[Broadcaster] = Resting(Broadcaster)
    /\ LET text == TrimSpace(line)
           msg == Msg("broadcast", <<"server">>, E, text, E)
           st == Deliver(RoomMembers(msg.Room), msg, FALSE, FanoutStart)
       IN IF text = << >>
          THEN /\ last' = Event("console", NilConn, NoMsg, "ok")
               /\ sent' = << >>
               /\ pushed' = << >>
               /\ UNCHANGED <<server, conn, clients, task>>
          ELSE /\ sent' = st.sent
               /\ pushed' = st.pushed
               /\ conn' = st.conn
               /\ clients' = st.clients
               /\ IF st.panic
                  THEN /\ server' = "aborted"
                       /\ last' = Event("console", NilConn, msg, "panic")
                       /\ task' = task
                  ELSE /\ LogSize + Cardinality(Saving) < MaxLog
                       /\ server' = server
                       /\ last' = Event("console", NilConn, msg, "ok")
                       /\ task' = [task EXCEPT ![Broadcaster] =
                                      Frame("fanout_save", msg, << >>, << >>)]
    /\ UNCHANGED <<users, rooms, files, held>>

\* Line 250: roomLock released, the operator's message is appended to the
\* file of its room.
handleMessagesSave ==
    /\ Ready
    /\ task[Broadcaster].pc = "fanout_save"
    /\ files' = SaveMessageToFile(task[Broadcaster].msg)
    /\ Returned("save", NilConn, task[Broadcaster].msg, << >>)
    /\ task' = [task EXCEPT ![Broadcaster] = Resting(Broadcaster)]
    /\ UNCHANGED <<server, conn, users, clients, rooms, held>>

---------------------------------------------------------------------------
\* The inbound messages a client sends.

CredentialsOf(names, passwords) ==
    {Msg(t, n, E, p, E) : t \in {"signup", "signin"}, n \in names, p \in passwords}

RoomRequestsOf(roomNames) ==
    {Msg(t, E, E, r, E) : t \in {"create_room", "join_room"}, r \in roomNames}

ChatMessagesOf(names, contents) ==
    {Msg("broadcast", n, E, c, E) : n \in names, c \in contents}
      \cup {Msg("dm", n, g, c, E) : n \in names, g \in names, c \in contents}

Credentials == CredentialsOf(Names, Passwords)

RoomRequests == RoomRequestsOf(RoomNames)

ChatMessages == ChatMessagesOf(Names, ChatContents)

AuthCredentials ==
    CredentialsOf({alice}, AuthPasswords) \cup CredentialsOf({bob}, Passwords)

AuthRoomRequests == RoomRequestsOf(AuthRoomNames)

AuthChatMessages == ChatMessagesOf(AuthSenders, AuthContents)

\* The handler has returned and what it wrote has gone out: the goroutine is
\* back at its read (ws.ReadJSON, reader.ReadString, <-broadcast).
NextRead ==
    /\ server = "running"
    /\ last # Idle
    /\ last' = Idle
    /\ sent' = << >>
    /\ pushed' = << >>
    /\ UNCHANGED <<server, conn, users, clients, rooms, files>>

\* The step is a handler run from its first line to its last: no goroutine is
\* left inside it.
Quiet == UNCHANGED <<task, held>>

Next ==
    \/ \E ws \in Conns : Upgrade(ws) /\ Quiet
    \/ UpgradeError /\ Quiet
    \/ \E ws \in Conns : ReadError(ws) /\ Quiet
    \/ \E ws \in Conns, msg \in Credentials : handleSignup(ws, msg) /\ Quiet
    \/ \E ws \in Conns, msg \in Credentials : handleSignin(ws, msg) /\ Quiet
    \/ \E ws \in Conns : handleSignout(ws, Msg("signout", E, E, E, E)) /\ Quiet
    \/ \E ws \in Conns, msg \in RoomRequests : handleCreateRoom(ws, msg) /\ Quiet
    \/ \E ws \in Conns, msg \in RoomRequests : handleJoinRoom(ws, msg) /\ Quiet
    \/ \E ws \in Conns : handleLeaveRoom(ws, Msg("leave_room", E, E, E, E)) /\ Quiet
    \/ \E ws \in Conns, msg \in ChatMessages : handleChat(ws, msg)
    \/ \E ws \in Conns : handleChatTag(ws)
    \/ \E ws \in Conns : handleChatLocked(ws)
    \/ \E reader \in Conns, writer \in Conns : ConcurrentMapReadWrite(reader, writer) /\ Quiet
    \/ \E ws \in Conns : Ignored(ws, Msg("info", E, E, E, E)) /\ Quiet
    \/ \E line \in ConsoleLines : handleMessages(line)
    \/ handleMessagesSave
    \/ NextRead /\ Quiet

Spec == Init /\ [][Next]_vars

\* The same server under the alphabets of SpecAuth.
NextAuth ==
    \/ \E ws \in Conns : Upgrade(ws) /\ Quiet
    \/ UpgradeError /\ Quiet
    \/ \E ws \in Conns : ReadError(ws) /\ Quiet
    \/ \E ws \in Conns, msg \in AuthCredentials : handleSignup(ws, msg) /\ Quiet
    \/ \E ws \in Conns, msg \in AuthCredentials : handleSignin(ws, msg) /\ Quiet
    \/ \E ws \in Conns : handleSignout(ws, Msg("signout", E, E, E, E)) /\ Quiet
    \/ \E ws \in Conns, msg \in AuthRoomRequests : handleCreateRoom(ws, msg) /\ Quiet
    \/ \E ws \in Conns, msg \in AuthRoomRequests : handleJoinRoom(ws, msg) /\ Quiet
    \/ \E ws \in Conns : handleLeaveRoom(ws, Msg("leave_room", E, E, E, E)) /\ Quiet
    \/ \E ws \in Conns, msg \in AuthChatMessages : handleChat(ws, msg)
    \/ \E ws \in Conns : handleChatTag(ws)
    \/ \E ws \in Conns : handleChatLocked(ws)
    \/ \E reader \in Conns, writer \in Conns : ConcurrentMapReadWrite(reader, writer) /\ Quiet
    \/ \E ws \in Conns : Ignored(ws, Msg("info", E, E, E, E)) /\ Quiet
    \/ \E line \in ConsoleLines : handleMessages(line)
    \/ handleMessagesSave
    \/ NextRead /\ Quiet

SpecAuth == Init /\ [][NextAuth]_vars

\* The same server under the alphabets of SpecRooms.  With one connection
\* no handler runs beside another, so no map access is concurrent.
ListedRoomRequests == RoomRequestsOf(ListedRoomNames)

NextRooms ==
    \/ \E ws \in ListedConns : Upgrade(ws) /\ Quiet
    \/ UpgradeError /\ Quiet
    \/ \E ws \in ListedConns : ReadError(ws) /\ Quiet
    \/ \E ws \in ListedConns, msg \in Credentials : handleSignup(ws, msg) /\ Quiet
    \/ \E ws \in ListedConns, msg \in Credentials : handleSignin(ws, msg) /\ Quiet
    \/ \E ws \in ListedConns : handleSignout(ws, Msg("signout", E, E, E, E)) /\ Quiet
    \/ \E ws \in ListedConns, msg \in ListedRoomRequests : handleCreateRoom(ws, msg) /\ Quiet
    \/ \E ws \in ListedConns, msg \in ListedRoomRequests :
           JoinRoomWithin(MaxListed, ws, msg) /\ Quiet
    \/ \E ws \in ListedConns : handleLeaveRoom(ws, Msg("leave_room", E, E, E, E)) /\ Quiet
    \/ \E ws \in ListedConns, msg \in AuthChatMessages : handleChat(ws, msg)
    \/ \E ws \in ListedConns : handleChatTag(ws)
    \/ \E ws \in ListedConns : handleChatLocked(ws)
    \/ \E ws \in ListedConns : Ignored(ws, Msg("info", E, E, E, E)) /\ Quiet
    \/ \E line \in ConsoleLines : handleMessages(line)
    \/ handleMessagesSave
    \/ NextRead /\ Quiet

SpecRooms == Init /\ [][NextRooms]_vars

---------------------------------------------------------------------------
\* The handlers as goroutines.

\* Input alphabets of SpecTasks: one identity to sign up and sign in as, on
\* either connection, the room named "lobby", a broadcast, and a dm whose
\* Sender and Target are no member's name (its fanout pushes to nobody and
\* runs to its end).  No room is named "", so the operator's fanout, which is
\* over rooms[""], finds no member here; Spec has the case where it does.
TaskRoomNames == {lobby}
TaskInbound ==
    CredentialsOf({alice}, Passwords)
      \cup RoomRequestsOf(TaskRoomNames)
      \cup {Msg("signout", E, E, E, E), Msg("leave_room", E, E, E, E),
            Msg("info", E, E, E, E),
            Msg("broadcast", alice, E, hi, E), Msg("dm", bob, bob, hi, E)}

\* The Lock calls with handleSignin locking clientLock first and userLock inside it.
LockAtInverted(pc) ==
    CASE pc \in {"signup", "signin_bind"} -> "userLock"
      [] pc \in {"signout", "read_error", "signin", "chat_unbind", "fanout_unbind"}
           -> "clientLock"
      [] pc \in {"create_room", "join_room", "leave_room", "chat_lock", "fanout"}
           -> "roomLock"

\* The Lock calls with handleChat locking userLock where it locks roomLock.
LockAtMistaken(pc) ==
    CASE pc \in {"signup", "signin", "chat_lock"} -> "userLock"
      [] pc \in {"signout", "read_error", "signin_bind", "chat_unbind", "fanout_unbind"}
           -> "clientLock"
      [] pc \in {"create_room", "join_room", "leave_room", "fanout"}
           -> "roomLock"

\* The mutex each Lock call is on, by the position of the call.
LockAt(pc) ==
    CASE pc \in {"signup", "signin"} -> "userLock"
      [] pc \in {"signout", "read_error", "signin_bind", "chat_unbind", "fanout_unbind"}
           -> "clientLock"
      [] pc \in {"create_room", "join_room", "leave_room", "chat_lock", "fanout"}
           -> "roomLock"

\* The positions of the Lock calls, and the line after each.
LockCalls ==
    {"signup", "signin", "signin_bind", "signout", "read_error", "create_room",
     "join_room", "leave_room", "chat_lock", "chat_unbind", "fanout", "fanout_unbind"}

AfterLock(pc) ==
    CASE pc = "signup" -> "signup_users"
      [] pc = "signin" -> "signin_users"
      [] pc = "signin_bind" -> "signin_clients"
      [] pc = "signout" -> "signout_clients"
      [] pc = "read_error" -> "read_error_clients"
      [] pc = "create_room" -> "create_room_rooms"
      [] pc = "join_room" -> "join_room_rooms"
      [] pc = "leave_room" -> "leave_room_clients"
      [] pc = "chat_lock" -> "chat_range"
      [] pc = "chat_unbind" -> "chat_clients_delete"
      [] pc = "fanout" -> "fanout_range"
      [] pc = "fanout_unbind" -> "fanout_clients_delete"

\* The first line of the handler the switch of handleConnections calls;
\* handleChat starts without a Lock call, and a type the switch has no case
\* for takes the loop back to its read.
Entry(type) ==
    IF type \in {"broadcast", "dm"} THEN "chat_clients"
    ELSE IF type \in {"signup", "signin", "signout", "create_room", "join_room",
                      "leave_room"}
    THEN type
    ELSE "read"

At(t, pc) == task[t].pc = pc
Goto(t, pc) == [task EXCEPT ![t].pc = pc]
Return(t) == [task EXCEPT ![t] = Frame("read", NoMsg, << >>, << >>)]
Gone(t) == [task EXCEPT ![t] = Frame("gone", NoMsg, << >>, << >>)]
Unlock(name) == [held EXCEPT ![name] = NoTask]

\* clients[ws], as a local: nil when ws has no entry.
Lookup(ws) == IF ws \in DOMAIN clients THEN <<clients[ws]>> ELSE << >>

\* Goroutines that have taken a join_room and not yet appended for it.
Joining == {t \in Conns : task[t].pc \in {"join_room", "join_room_rooms",
                                          "join_room_clients", "join_room_append"}}
\* A step of a goroutine leaves the record of the last handler run alone.
Running == Ready /\ UNCHANGED <<last, sent, pushed>>

\* upgrader.Upgrade succeeds and the goroutine enters its read loop.
UpgradeStep(t) ==
    /\ Running
    /\ At(t, "accept")
    /\ conn[t] = "new"
    /\ \A c \in Conns : c < t => conn[c] # "new"
    /\ conn' = [conn EXCEPT ![t] = "open"]
    /\ task' = Goto(t, "read")
    /\ UNCHANGED <<server, users, clients, rooms, files, held>>

\* ws.ReadJSON returns a message and the switch picks its handler.
ReadJSON(t, msg) ==
    /\ Running
    /\ At(t, "read")
    /\ msg.Type = "join_room" => Memberships + Cardinality(Joining) < MaxMembers
    /\ msg.Type \in {"broadcast", "dm"} => LogSize + Cardinality(Saving) < MaxLog
    /\ task' = IF Entry(msg.Type) = "read" THEN Return(t)
               ELSE [task EXCEPT ![t] = Frame(Entry(msg.Type), msg, << >>, << >>)]
    /\ UNCHANGED <<server, conn, users, clients, rooms, files, held>>

\* ws.ReadJSON returns an error.
ReadJSONError(t) ==
    /\ Running
    /\ At(t, "read")
    /\ task' = Goto(t, "read_error")
    /\ UNCHANGED <<server, conn, users, clients, rooms, files, held>>

\* sync.Mutex.Lock: the call returns when the mutex is free.
Lock(t) ==
    /\ Running
    /\ task[t].pc \in LockCalls
    /\ held[LockAt(task[t].pc)] = NoTask
    /\ held' = [held EXCEPT ![LockAt(task[t].pc)] = t]
    /\ task' = Goto(t, AfterLock(task[t].pc))
    /\ UNCHANGED <<server, conn, users, clients, rooms, files>>

\* Lines 69-72 after the Lock call, and the deferred ws.Close().
ReadErrorStep(t) ==
    /\ Running
    /\ At(t, "read_error_clients")
    /\ clients' = MapDelete(clients, t)
    /\ held' = Unlock("clientLock")
    /\ conn' = [conn EXCEPT ![t] = "closed"]
    /\ task' = Gone(t)
    /\ UNCHANGED <<server, users, rooms, files>>

handleSignupStep(t) ==
    /\ Running
    /\ LET msg == task[t].msg
       IN CASE At(t, "signup_users") ->
                 /\ users' = IF msg.Sender \in DOMAIN users THEN users
                             ELSE MapPut(users, msg.Sender, NewUser(msg.Sender, msg.Content))
                 /\ task' = Goto(t, "signup_reply")
                 /\ held' = held
            [] At(t, "signup_reply") ->
                 \* ws.WriteJSON, then the deferred userLock.Unlock()
                 /\ held' = Unlock("userLock")
                 /\ task' = Return(t)
                 /\ users' = users
            [] OTHER -> FALSE
    /\ UNCHANGED <<server, conn, clients, rooms, files>>

handleSigninStep(t) ==
    /\ Running
    /\ LET msg == task[t].msg
       IN CASE At(t, "signin_users") ->
                 /\ IF msg.Sender \notin DOMAIN users
                         \/ users[msg.Sender].Password # msg.Content
                    THEN task' = Goto(t, "signin_reply")
                    ELSE task' = [task EXCEPT ![t].user = <<msg.Sender>>,
                                              ![t].pc = "signin_bind"]
                 /\ UNCHANGED <<clients, held>>
            [] At(t, "signin_clients") ->
                 \* clients[ws] = user; clientLock.Unlock()
                 /\ clients' = MapPut(clients, t, task[t].user[1])
                 /\ held' = Unlock("clientLock")
                 /\ task' = Goto(t, "signin_reply")
            [] At(t, "signin_reply") ->
                 \* ws.WriteJSON, then the deferred userLock.Unlock()
                 /\ held' = Unlock("userLock")
                 /\ task' = Return(t)
                 /\ clients' = clients
            [] OTHER -> FALSE
    /\ UNCHANGED <<server, conn, users, rooms, files>>

handleSignoutStep(t) ==
    /\ Running
    /\ CASE At(t, "signout_clients") ->
              /\ clients' = MapDelete(clients, t)
              /\ task' = Goto(t, "signout_reply")
              /\ held' = held
         [] At(t, "signout_reply") ->
              \* ws.WriteJSON, then the deferred clientLock.Unlock()
              /\ held' = Unlock("clientLock")
              /\ task' = Return(t)
              /\ clients' = clients
         [] OTHER -> FALSE
    /\ UNCHANGED <<server, conn, users, rooms, files>>

handleCreateRoomStep(t) ==
    /\ Running
    /\ LET msg == task[t].msg
       IN CASE At(t, "create_room_rooms") ->
                 /\ rooms' = IF msg.Content \in DOMAIN rooms THEN rooms
                             ELSE MapPut(rooms, msg.Content, << >>)
                 /\ task' = Goto(t, "create_room_reply")
                 /\ held' = held
            [] At(t, "create_room_reply") ->
                 \* ws.WriteJSON, then the deferred roomLock.Unlock()
                 /\ held' = Unlock("roomLock")
                 /\ task' = Return(t)
                 /\ rooms' = rooms
            [] OTHER -> FALSE
    /\ UNCHANGED <<server, conn, users, clients, files>>

\* A run-time panic in the goroutine of connection t: the deferred
\* roomLock.Unlock() of the handler, if it has one pending, and the deferred
\* ws.Close() run, and the goroutine ends.
Panic(t, locked) ==
    /\ held' = IF locked THEN Unlock("roomLock") ELSE held
    /\ conn' = [conn EXCEPT ![t] = "closed"]
    /\ task' = Gone(t)

handleJoinRoomStep(t) ==
    /\ Running
    /\ LET msg == task[t].msg
           user == task[t].user
       IN CASE At(t, "join_room_rooms") ->
                 /\ task' = Goto(t, IF msg.Content \in DOMAIN rooms
                                    THEN "join_room_clients" ELSE "join_room_reply")
                 /\ UNCHANGED <<conn, users, rooms, held>>
            [] At(t, "join_room_clients") ->
                 \* user := clients[ws]
                 /\ task' = [task EXCEPT ![t].user = Lookup(t), ![t].pc = "join_room_append"]
                 /\ UNCHANGED <<conn, users, rooms, held>>
            [] At(t, "join_room_append") ->
                 IF user = << >>
                 THEN Panic(t, TRUE) /\ UNCHANGED <<users, rooms>>
                 ELSE /\ users' = [users EXCEPT ![user[1]].Room = msg.Content]
                      /\ rooms' = [rooms EXCEPT ![msg.Content] = Append(@, user[1])]
                      /\ task' = Goto(t, "join_room_reply")
                      /\ UNCHANGED <<conn, held>>
            [] At(t, "join_room_reply") ->
                 \* sendChatHistory and ws.WriteJSON, or the error's ws.WriteJSON,
                 \* then the deferred roomLock.Unlock()
                 /\ held' = Unlock("roomLock")
                 /\ task' = Return(t)
                 /\ UNCHANGED <<conn, users, rooms>>
            [] OTHER -> FALSE
    /\ UNCHANGED <<server, clients, files>>

handleLeaveRoomStep(t) ==
    /\ Running
    /\ LET user == task[t].user
       IN CASE At(t, "leave_room_clients") ->
                 \* user := clients[ws]
                 /\ task' = [task EXCEPT ![t].user = Lookup(t), ![t].pc = "leave_room_rooms"]
                 /\ UNCHANGED <<conn, users, rooms, held>>
            [] At(t, "leave_room_rooms") ->
                 IF user = << >>
                 THEN Panic(t, TRUE) /\ UNCHANGED <<users, rooms>>
                 ELSE /\ task' = Goto(t, "leave_room_reply")
                      /\ IF users[user[1]].Room \notin DOMAIN rooms
                         THEN UNCHANGED <<users, rooms>>
                         ELSE /\ rooms' = [rooms EXCEPT ![users[user[1]].Room] =
                                               RemoveFirst(@, users[user[1]].Username)]
                              /\ users' = [users EXCEPT ![user[1]].Room = E]
                      /\ UNCHANGED <<conn, held>>
            [] At(t, "leave_room_reply") ->
                 \* ws.WriteJSON, then the deferred roomLock.Unlock()
                 /\ held' = Unlock("roomLock")
                 /\ task' = Return(t)
                 /\ UNCHANGED <<conn, users, rooms>>
            [] OTHER -> FALSE
    /\ UNCHANGED <<server, clients, files>>

\* The body of the two fanout loops for the member at the head of the range:
\* "skip" (the dm filter of handleChat), "panic" (u.Conn is nil), "sent", or
\* "failed" (WriteJSON returned an error).
Iteration(t, filtered) ==
    LET msg == task[t].msg
        u == users[Head(task[t].range)]
    IN IF filtered /\ msg.Type = "dm" /\ u.Username # msg.Target /\ u.Username # msg.Sender
       THEN "skip"
       ELSE IF u.Conn = NilConn THEN "panic"
       ELSE IF conn[u.Conn] = "open" THEN "sent"
       ELSE "failed"

handleChatStep(t) ==
    /\ Running
    /\ LET msg == task[t].msg
           user == task[t].user
       IN CASE At(t, "chat_clients") ->
                 \* user := clients[ws]
                 /\ task' = [task EXCEPT ![t].user = Lookup(t), ![t].pc = "chat_check"]
                 /\ UNCHANGED <<conn, clients, files, held>>
            [] At(t, "chat_check") ->
                 \* if user.Room == ""
                 IF user = << >>
                 THEN Panic(t, FALSE) /\ UNCHANGED <<clients, files>>
                 ELSE /\ task' = Goto(t, IF users[user[1]].Room = E
                                         THEN "chat_reply" ELSE "chat_tag")
                      /\ UNCHANGED <<conn, clients, files, held>>
            [] At(t, "chat_reply") ->
                 \* ws.WriteJSON of the error; return
                 /\ task' = Return(t)
                 /\ UNCHANGED <<conn, clients, files, held>>
            [] At(t, "chat_tag") ->
                 \* msg.Room = user.Room
                 /\ task' = [task EXCEPT ![t].msg.Room = users[user[1]].Room,
                                         ![t].pc = "chat_lock"]
                 /\ UNCHANGED <<conn, clients, files, held>>
            [] At(t, "chat_range") ->
                 \* range rooms[user.Room]
                 /\ task' = [task EXCEPT ![t].range = RoomMembers(users[user[1]].Room),
                                         ![t].pc = "chat_loop"]
                 /\ UNCHANGED <<conn, clients, files, held>>
            [] At(t, "chat_loop") ->
                 IF task[t].range = << >>
                 THEN /\ task' = Goto(t, "chat_save")
                      /\ UNCHANGED <<conn, clients, files, held>>
                 ELSE IF Iteration(t, TRUE) \in {"skip", "sent"}
                 THEN /\ task' = [task EXCEPT ![t].range = Tail(@)]
                      /\ UNCHANGED <<conn, clients, files, held>>
                 ELSE IF Iteration(t, TRUE) = "panic"
                 THEN Panic(t, TRUE) /\ UNCHANGED <<clients, files>>
                 ELSE \* "failed": u.Conn.Close()
                      /\ conn' = [conn EXCEPT ![users[Head(task[t].range)].Conn] = "closed"]
                      /\ task' = Goto(t, "chat_unbind")
                      /\ UNCHANGED <<clients, files, held>>
            [] At(t, "chat_clients_delete") ->
                 \* delete(clients, u.Conn); clientLock.Unlock()
                 /\ clients' = MapDelete(clients, users[Head(task[t].range)].Conn)
                 /\ held' = Unlock("clientLock")
                 /\ task' = [task EXCEPT ![t].range = Tail(@), ![t].pc = "chat_loop"]
                 /\ UNCHANGED <<conn, files>>
            [] At(t, "chat_save") ->
                 \* saveMessageToFile(msg), then the deferred roomLock.Unlock()
                 /\ files' = SaveMessageToFile(msg)
                 /\ held' = Unlock("roomLock")
                 /\ task' = Return(t)
                 /\ UNCHANGED <<conn, clients>>
            [] OTHER -> FALSE
    /\ UNCHANGED <<server, users, rooms>>

\* startCLI reads a line that is not blank and sends it on the unbuffered
\* channel; handleMessages receives it.
Broadcast(line) ==
    /\ Running
    /\ At(Broadcaster, "receive")
    /\ TrimSpace(line) # << >>
    /\ LogSize + Cardinality(Saving) < MaxLog
    /\ task' = [task EXCEPT ![Broadcaster] =
                   Frame("fanout", Msg("broadcast", <<"server">>, E, TrimSpace(line), E),
                         << >>, << >>)]
    /\ UNCHANGED <<server, conn, users, clients, rooms, files, held>>

\* A panic here is in a goroutine nothing recovers.
handleMessagesStep ==
    /\ Running
    /\ LET t == Broadcaster
           msg == task[t].msg
       IN CASE At(t, "fanout_range") ->
                 \* range rooms[msg.Room]
                 /\ task' = [task EXCEPT ![t].range = RoomMembers(msg.Room),
                                         ![t].pc = "fanout_loop"]
                 /\ UNCHANGED <<server, conn, clients, files, held>>
            [] At(t, "fanout_loop") ->
                 IF task[t].range = << >>
                 THEN /\ task' = Goto(t, "fanout_unlock")
                      /\ UNCHANGED <<server, conn, clients, files, held>>
                 ELSE IF Iteration(t, FALSE) = "sent"
                 THEN /\ task' = [task EXCEPT ![t].range = Tail(@)]
                      /\ UNCHANGED <<server, conn, clients, files, held>>
                 ELSE IF Iteration(t, FALSE) = "panic"
                 THEN /\ server' = "aborted"
                      /\ UNCHANGED <<task, conn, clients, files, held>>
                 ELSE \* "failed": user.Conn.Close()
                      /\ conn' = [conn EXCEPT ![users[Head(task[t].range)].Conn] = "closed"]
                      /\ task' = Goto(t, "fanout_unbind")
                      /\ UNCHANGED <<server, clients, files, held>>
            [] At(t, "fanout_clients_delete") ->
                 \* delete(clients, user.Conn); clientLock.Unlock()
                 /\ clients' = MapDelete(clients, users[Head(task[t].range)].Conn)
                 /\ held' = Unlock("clientLock")
                 /\ task' = [task EXCEPT ![t].range = Tail(@), ![t].pc = "fanout_loop"]
                 /\ UNCHANGED <<server, conn, files>>
            [] At(t, "fanout_unlock") ->
                 \* roomLock.Unlock()
                 /\ held' = Unlock("roomLock")
                 /\ task' = Goto(t, "fanout_save")
                 /\ UNCHANGED <<server, conn, clients, files>>
            [] At(t, "fanout_save") ->
                 \* saveMessageToFile(msg)
                 /\ files' = SaveMessageToFile(msg)
                 /\ task' = [task EXCEPT ![t] = Frame("receive", NoMsg, << >>, << >>)]
                 /\ UNCHANGED <<server, conn, clients, held>>
            [] OTHER -> FALSE
    /\ UNCHANGED <<users, rooms>>

\* The maps and fields a goroutine at pc is about to read or write.
Reads(pc) ==
    CASE pc \in {"signup_users", "signin_users"} -> {"users"}
      [] pc \in {"join_room_clients", "leave_room_clients", "chat_clients"} -> {"clients"}
      [] pc \in {"create_room_rooms", "join_room_rooms", "leave_room_rooms", "chat_check",
                 "chat_tag", "chat_range", "chat_loop", "fanout_range", "fanout_loop"}
           -> {"rooms"}
      [] OTHER -> {}

Writes(pc) ==
    CASE pc = "signup_users" -> {"users"}
      [] pc \in {"signin_clients", "signout_clients", "read_error_clients",
                 "chat_clients_delete", "fanout_clients_delete"} -> {"clients"}
      [] pc \in {"create_room_rooms", "join_room_append", "leave_room_rooms"} -> {"rooms"}
      [] OTHER -> {}

\* The Go runtime may end the process with "concurrent map read and map write"
\* when one goroutine reads a map while another writes it; a delete from an
\* empty map returns before it writes.
ConcurrentMapAccess ==
    /\ Running
    /\ \E reader \in Tasks, writer \in Tasks :
           /\ reader # writer
           /\ "clients" \in Reads(task[reader].pc)
           /\ "clients" \in Writes(task[writer].pc)
           /\ task[writer].pc = "signin_clients" \/ DOMAIN clients # {}
    /\ server' = "aborted"
    /\ UNCHANGED <<conn, users, clients, rooms, files, task, held>>

NextTasks ==
    \/ \E t \in Conns : UpgradeStep(t)
    \/ UpgradeError /\ Quiet
    \/ \E t \in Conns, msg \in TaskInbound : ReadJSON(t, msg)
    \/ \E t \in Conns : ReadJSONError(t)
    \/ \E t \in Tasks : Lock(t)
    \/ \E t \in Conns : ReadErrorStep(t)
    \/ \E t \in Conns : handleSignupStep(t)
    \/ \E t \in Conns : handleSigninStep(t)
    \/ \E t \in Conns : handleSignoutStep(t)
    \/ \E t \in Conns : handleCreateRoomStep(t)
    \/ \E t \in Conns : handleJoinRoomStep(t)
    \/ \E t \in Conns : handleLeaveRoomStep(t)
    \/ \E t \in Conns : handleChatStep(t)
    \/ \E line \in ConsoleLines : Broadcast(line)
    \/ handleMessagesStep
    \/ ConcurrentMapAccess

SpecTasks == Init /\ [][NextTasks]_vars

---------------------------------------------------------------------------
\* Vocabulary of the properties below.

InList(list, x) == \E i \in 1..Len(list) : list[i] = x

\* ws has a session, and the room that session is in.
Bound(ws) == ws \in DOMAIN clients
CurrentRoom(ws) == users[clients[ws]].Room
InRoom(ws) == Bound(ws) /\ CurrentRoom(ws) # E

\* The step being taken handled an event of this kind from ws.
Handled(kind, ws) == last'.kind = kind /\ last'.conn = ws

\* The live connections whose session is an entry of the room's member list.
ConnectionsOf(room) ==
    {c \in DOMAIN clients : conn[c] = "open" /\ InList(RoomMembers(room), clients[c])}

\* The step being taken wrote a chat message of this type, tagged room, on c.
Delivered(type, room, c) ==
    \E i \in 1..Len(sent') :
        /\ sent'[i].to = c
        /\ sent'[i].msg.Type = type
        /\ sent'[i].msg.Room = room
        /\ sent'[i].msg.Content = last'.msg.Content

\* The step being taken answered ws, and nobody else, with one error message.
AnsweredWithError(ws) ==
    /\ Len(sent') = 1
    /\ sent'[1].to = ws
    /\ sent'[1].msg.Type = "error"

---------------------------------------------------------------------------
\* C1: a broadcast sent by a session that is in room R is written to the
\* connection of every member of R at that moment, the sender's own connection
\* included, tagged with room R.
C1_BroadcastReachesEveryMember ==
    [][\A ws \in Conns :
          Handled("broadcast", ws) /\ InRoom(ws)
          => /\ Delivered("broadcast", CurrentRoom(ws), ws)
             /\ \A c \in ConnectionsOf(CurrentRoom(ws)) :
                    Delivered("broadcast", CurrentRoom(ws), c)]_vars

\* C2: a dm sent by a session of identity A that is in room R, with target B, is
\* written to exactly the members of R whose identity is A or B, and to no
\* connection outside R.
C2_DmReachesSenderAndTarget ==
    [][\A ws \in Conns :
          Handled("dm", ws) /\ InRoom(ws)
          => \A c \in Conns :
                 Delivered("dm", CurrentRoom(ws), c)
                 <=> /\ c \in ConnectionsOf(CurrentRoom(ws))
                     /\ clients[c] \in {clients[ws], last'.msg.Target}]_vars

\* The one line a chat record is meant to be in its room's history.
RecordLine(msg) ==
    <<Flatten(<<"[">> \o msg.Room \o <<"] ">> \o msg.Sender \o <<": ">> \o msg.Content)>>

\* What a join of room would replay now.
Replay(room) == ScanLines(FileBytes(room))

\* C3: a successful join of room R sends the joining connection, and nobody
\* else, one history event per record appended to R's log so far, in the order
\* of the appends, and then the info event: each append adds exactly its own
\* record at the end of what a replay yields, and the join sends that replay.
C3_JoinReplaysAppendedRecords ==
    [][/\ \A room \in RoomNames :
             FileBytes(room)' # FileBytes(room)
             => /\ last'.msg.Room = room
                /\ Replay(room)' = Append(Replay(room), RecordLine(last'.msg))
       /\ \A ws \in Conns :
             Handled("join_room", ws) /\ last'.outcome = "ok"
               /\ last'.msg.Content \in DOMAIN rooms
             => LET lines == Replay(last'.msg.Content)
                IN /\ Len(sent') = Len(lines) + 1
                   /\ \A i \in 1..Len(sent') : sent'[i].to = ws
                   /\ \A i \in 1..Len(lines) :
                          /\ sent'[i].msg.Type = "history"
                          /\ sent'[i].msg.Content = lines[i]
                   /\ sent'[Len(sent')].msg.Type = "info"]_vars

\* The members a fanout of msg over the list is for.
RECURSIVE DeliverySet(_, _, _)
DeliverySet(members, msg, filtered) ==
    IF members = << >> THEN << >>
    ELSE LET rest == DeliverySet(Tail(members), msg, filtered)
         IN IF filtered /\ msg.Type = "dm" /\ Head(members) # msg.Target
                        /\ Head(members) # msg.Sender
            THEN rest
            ELSE <<Head(members)>> \o rest

\* The step being taken ran the fanout of a client's or the operator's message.
FanoutOver(members, filtered) ==
    /\ pushed' = DeliverySet(members, last'.msg, filtered)
    /\ \A i \in 1..Len(pushed') :
           LET u == users[pushed'[i]]
           IN (\A k \in 1..Len(sent') : sent'[k].to # u.Conn)
              => u.Conn \notin DOMAIN clients'

\* C4: in the fanout of a broadcast or dm, from a client or from the operator,
\* a push that fails does not stop the pushes to the remaining recipients, and
\* after the fanout the connection whose push failed is not in clients.
C4_FanoutSurvivesFailedPush ==
    [][/\ \A ws \in Conns :
             (Handled("broadcast", ws) \/ Handled("dm", ws)) /\ InRoom(ws)
             => FanoutOver(RoomMembers(CurrentRoom(ws)), TRUE)
       /\ last'.kind = "console" /\ last'.msg # NoMsg
             => FanoutOver(RoomMembers(E), FALSE)]_vars

\* C5: a leave_room from a session that is in no room is answered with an error
\* on that connection and leaves users, clients and every member list as they
\* were, also when a room named "" exists.
C5_LeaveOutsideRoomIsError ==
    [][\A ws \in Conns :
          Handled("leave_room", ws) /\ Bound(ws) /\ CurrentRoom(ws) = E
          => /\ AnsweredWithError(ws)
             /\ UNCHANGED <<users, clients, rooms>>]_vars

\* C6: a signup for a registered username is answered with an error, and no
\* step changes or removes the credential of a registered username.
C6_CredentialIsStable ==
    [][/\ \A n \in DOMAIN users :
             /\ n \in DOMAIN users'
             /\ users'[n].Password = users[n].Password
       /\ \A ws \in Conns :
             Handled("signup", ws) /\ last'.msg.Sender \in DOMAIN users
             => AnsweredWithError(ws)]_vars

\* A signup for a registered username, with another password, was just refused.
C6_Witness ==
    /\ last.kind = "signup"
    /\ last.msg.Sender \in DOMAIN users
    /\ users[last.msg.Sender].Password # last.msg.Content
    /\ Len(sent) = 1
    /\ sent[1].msg.Type = "error"

\* C7: each session is an entry of the member list of at most one room, and
\* that room is the session's current room.
C7_MemberOfCurrentRoomOnly ==
    \A n \in DOMAIN users : \A room \in DOMAIN rooms :
        InList(rooms[room], n) => users[n].Room = room

\* C8: every key of clients maps to a session record whose Conn is that key.
C8_SessionConnIsItsKey ==
    \A c \in DOMAIN clients : users[clients[c]].Conn = c

\* C9: from a connection without a session, a signout, create_room, join_room,
\* leave_room, broadcast or dm is answered with an error on that connection only
\* and changes no registry.
C9_UnboundConnectionIsRefused ==
    [][\A ws \in Conns :
          /\ last'.conn = ws
          /\ last'.kind \in {"signout", "create_room", "join_room", "leave_room",
                             "broadcast", "dm"}
          /\ ~Bound(ws)
          => /\ AnsweredWithError(ws)
             /\ UNCHANGED <<users, clients, rooms>>]_vars

\* C10: once the listener is up, no inbound event, connection failure, handshake
\* failure, delivery failure or operator message aborts the server process.
C10_ServerNeverAborts == server = "running"

---------------------------------------------------------------------------
\* Properties of the goroutines (SpecTasks).

\* The mutex that is meant to guard a map; User.Room goes with rooms.
LockOf(registry) ==
    CASE registry = "users" -> "userLock"
      [] registry = "clients" -> "clientLock"
      [] registry = "rooms" -> "roomLock"

Touches(pc) == Reads(pc) \cup Writes(pc)

\* The positions whose step writes on a connection.
Pushing ==
    {"signup_reply", "signin_reply", "signout_reply", "create_room_reply",
     "join_room_reply", "leave_room_reply", "chat_reply", "chat_loop", "fanout_loop"}

\* The mutex a goroutine is waiting for.
Wants(t) == IF task[t].pc \in LockCalls THEN LockAt(task[t].pc) ELSE "none"

\* The goroutine is in the loop of a fanout, its range taken.
InFanout(t) ==
    task[t].pc \in {"chat_loop", "chat_unbind", "chat_clients_delete",
                    "fanout_loop", "fanout_unbind", "fanout_clients_delete"}

\* C11: a goroutine that is about to read or write users, clients, or rooms and
\* User.Room holds the mutex of that map, so that no goroutine is about to
\* write one of them while another is about to read or write it.
C11_AccessesHoldTheLock ==
    /\ \A t \in Tasks : \A r \in Touches(task[t].pc) : held[LockOf(r)] = t
    /\ \A t \in Tasks, o \in Tasks :
           t # o => Writes(task[t].pc) \cap Touches(task[o].pc) = {}

\* C12: a goroutine that is about to write on a connection holds neither
\* userLock nor clientLock.
C12_NoPushUnderMapLocks ==
    \A t \in Tasks :
        task[t].pc \in Pushing => held.userLock # t /\ held.clientLock # t

\* C13: no goroutine calls Lock while it holds clientLock (so roomLock and
\* userLock are always taken before clientLock), no goroutine stops or goes
\* back to its read holding a mutex, and in no set of goroutines does every
\* one wait for a mutex that one of the set holds.
C13_LockOrderHasNoCycle ==
    /\ \A t \in Tasks : Wants(t) # "none" => held.clientLock # t
    /\ \A name \in DOMAIN held :
           held[name] # NoTask
           => task[held[name]].pc \notin {"accept", "read", "gone", "receive"}
    /\ \A S \in SUBSET Tasks :
           S # {} => \E t \in S : Wants(t) = "none" \/ held[Wants(t)] \notin S

\* A signin holds userLock and waits for clientLock, which another goroutine
\* holds.
C13_Witness ==
    \E t \in Tasks, o \in Tasks :
        /\ t # o
        /\ held.userLock = t
        /\ Wants(t) = "clientLock"
        /\ held.clientLock = o

\* C14: while a goroutine is in the loop of a fanout, of a client's message or
\* of the operator's, no step changes rooms: the lists are those of the moment
\* the loop took its range.
C14_MembersFixedDuringFanout ==
    [][(\E t \in Tasks : InFanout(t)) => rooms' = rooms]_vars

\* A fanout has members left to visit while a join_room, create_room or
\* leave_room of another goroutine waits for roomLock.
C14_Witness ==
    \E t \in Tasks, o \in Tasks :
        /\ InFanout(t)
        /\ task[t].range # << >>
        /\ task[o].pc \in {"create_room", "join_room", "leave_room"}
        /\ held.roomLock = t

\* C18: the room a client's chat message is tagged with, which is the room
\* whose log gets the record, is the room whose member list the fanout takes
\* its range from, whatever the other connections do meanwhile.
C18_OneRoomPerChat ==
    [][\A t \in Conns :
          At(t, "chat_range") /\ task'[t].pc = "chat_loop"
          => users[task[t].user[1]].Room = task[t].msg.Room]_vars

---------------------------------------------------------------------------
\* C15: a session created by a successful signin is in no room until a
\* join_room on that same connection succeeds, and the current room of a
\* session changes only in a join_room or leave_room of its own connection, so
\* a chat from a freshly signed-in connection is answered with the error
\* whatever other connections have done.
C15_FreshSessionIsInNoRoom ==
    [][\A ws \in Conns :
          /\ Handled("signin", ws) /\ sent'[1].msg.Type = "info"
             => users'[clients'[ws]].Room = E
          /\ Bound(ws) /\ ws \in DOMAIN clients' /\ clients'[ws] = clients[ws]
               /\ users'[clients[ws]].Room # users[clients[ws]].Room
             => /\ last'.conn = ws
                /\ last'.kind \in {"join_room", "leave_room"}]_vars

\* C16: a broadcast or dm accepted from a session in room R appends exactly one
\* record, for R, the message's sender and its content, to R's log and to no
\* other, once the fanout is over; a chat that is not accepted appends nothing.
C16_AcceptedChatAppendsOneRecord ==
    [][\A ws \in Conns :
          Handled("broadcast", ws) \/ Handled("dm", ws)
          => IF InRoom(ws)
             THEN /\ last'.msg.Room = CurrentRoom(ws)
                  /\ files' = MapPut(files, CurrentRoom(ws),
                                     FileBytes(CurrentRoom(ws)) \o FormatLine(last'.msg))
             ELSE files' = files]_vars

\* C17: a leave_room from a session whose current room is R removes from R's
\* list exactly one entry, the first one of the session's identity, keeps the
\* other entries of R in their order, leaves every other room's list as it was
\* and sets the session's current room to none.
C17_LeaveRemovesFirstOwnEntry ==
    [][\A ws \in Conns :
          Handled("leave_room", ws) /\ InRoom(ws)
          => LET n == clients[ws]
                 R == CurrentRoom(ws)
             IN /\ DOMAIN rooms' = DOMAIN rooms
                /\ R \in DOMAIN rooms
                /\ \E k \in 1..Len(rooms[R]) :
                       /\ rooms[R][k] = n
                       /\ \A j \in 1..(k - 1) : rooms[R][j] # n
                       /\ rooms'[R] = SubSeq(rooms[R], 1, k - 1)
                                        \o SubSeq(rooms[R], k + 1, Len(rooms[R]))
                /\ \A r \in DOMAIN rooms \ {R} : rooms'[r] = rooms[r]
                /\ users'[n].Room = E]_vars

\* alice has just left lobby, whose list held alice, bob, alice or bob, alice,
\* alice and now holds bob, alice, while the list of den holds bob.
C17_Witness ==
    /\ last.kind = "leave_room"
    /\ sent = <<Write(last.conn, Reply("info", "Left room successfully"))>>
    /\ Bound(last.conn)
    /\ clients[last.conn] = alice
    /\ CurrentRoom(last.conn) = E
    /\ DOMAIN rooms = {lobby, den}
    /\ rooms[lobby] = <<bob, alice>>
    /\ rooms[den] = <<bob>>

\* C19: the sender of every chat message written or logged for a client's
\* broadcast or dm is the identity of the sending connection's session, and
\* the session's own identity is what puts the sender in a dm's delivery set.
C19_SenderIsBoundIdentity ==
    [][\A ws \in Conns :
          (Handled("broadcast", ws) \/ Handled("dm", ws)) /\ InRoom(ws)
          => /\ files' # files \/ sent' # << >>
                => last'.msg.Sender = clients[ws]
             /\ InList(RoomMembers(CurrentRoom(ws)), clients[ws])
                => InList(pushed', clients[ws])]_vars

\* C20: once a connection has signed out or its read has failed, it has no
\* entry in clients and, unless another connection holds a session of the same
\* identity, no room's member list has an entry for its session, so that no
\* later fanout pushes to it.
C20_EndedSessionIsGone ==
    [][\A ws \in Conns :
          (Handled("signout", ws) \/ Handled("read_error", ws)) /\ Bound(ws)
          => /\ ws \notin DOMAIN clients'
             /\ (\A c \in DOMAIN clients' : clients'[c] # clients[ws])
                => \A room \in DOMAIN rooms' : ~InList(rooms'[room], clients[ws])]_vars

====
